---- MODULE Spec2Model ----
(***************************************************************************)
(* Model of the immutable Project / Track / Event aggregate of kagula.     *)
(*                                                                         *)
(* Objects live in a heap: `tracks` holds the Track instances, `arrays`    *)
(* the Track[] arrays that exist (those handed to the Project constructor  *)
(* and those the Project methods build), `projects` the Project instances. *)
(* An address is the index of the object in its heap sequence, so object   *)
(* identity (toBe) is equality of addresses and content equality (toEqual) *)
(* is equality of the records found there.                                 *)
(***************************************************************************)
EXTENDS Integers, Sequences, FiniteSets, TLC

VARIABLES tracks, arrays, projects, genCount, calls, last, prev,
          osc, contexts, nodes, pending

vars == <<tracks, arrays, projects, genCount, calls, last, prev,
          osc, contexts, nodes, pending>>

\* The heap of tracks and projects, and the oscillator with the Web Audio
\* objects it created
heapVars == <<tracks, arrays, projects, genCount>>

audioVars == <<osc, contexts, nodes, pending>>

(***************************************************************************)
(* Bounds of the model.                                                    *)
(***************************************************************************)
\* calls in one behaviour of the aggregate, and of a track alone
MaxCalls == 4
MaxTrackCalls == 3
\* tracks a caller constructs directly
MaxNewTracks == 2
\* length of the event list given to the Track constructor
MaxCtorLen == 2
MaxProjCtorLen == 1
\* events in one track
MaxEvents == 3
\* length of the track list given to the Project constructor
MaxProjTracks == 2
\* calls of generateId()
MaxGen == 3
\* calls in one behaviour of callers that pass values of any type
MaxUntypedCalls == 3
\* notes a caller constructs in one behaviour
MaxNoteCalls == 2
\* value objects a caller constructs, or compares, in one behaviour
MaxValueCalls == 2
\* calls of initialize(), togglePlay() and dispose() on one oscillator
MaxOscCalls == 4

(***************************************************************************)
(* Value objects: a kind tag (the class) and the validated raw value.      *)
(***************************************************************************)
Ticks(v) == [kind |-> "Ticks", value |-> v]

Pitch(v) == [kind |-> "Pitch", value |-> v]

Velocity(v) == [kind |-> "Velocity", value |-> v]

\* Ids chosen by a caller, and the id that names nothing ("non-existent-id").
LitIds == {1, 2}

NoId == 0

\* generateId(): the n-th call returns a value distinct from every earlier one
\* and from the caller-chosen ids.
generateId(n) == Cardinality(LitIds) + n + 1

Names == {"", "Piano"}

Times == {Ticks(0), Ticks(480)}

Pitches == {Pitch(60), Pitch(72)}

Velocities == {Velocity(100)}

Durations == {Ticks(0), Ticks(240)}

(***************************************************************************)
(* Event / Note.                                                           *)
(***************************************************************************)
\* event instanceof Event
IsEvent(event) == event.class \in {"Note"}

\* new Note(id, time, pitch, velocity, duration): the checks of the Event and
\* Note constructors, in order; ok = FALSE is a thrown InvalidArgumentError.
NoteCtorOk(time, pitch, velocity, duration) ==
    /\ time.kind = "Ticks"
    /\ pitch.kind = "Pitch"
    /\ velocity.kind = "Velocity"
    /\ duration.kind = "Ticks"
    /\ ~(duration.value <= 0)

Note(id, time, pitch, velocity, duration) ==
    [class |-> "Note", id |-> id, time |-> time, pitch |-> pitch,
     velocity |-> velocity, duration |-> duration]

\* The notes a caller constructs with an explicit id.
LitNotes ==
    {Note(id, time, Pitch(60), Velocity(100), Ticks(240)) :
        id \in LitIds, time \in Times}

NoEvent == [class |-> "none"]

\* Values a caller passes past the type checker: a string where an Event is
\* expected ("not an event"), a value that is no Track where a Track is expected
\* ("not a track"; no address of the heap), a number where a value object is
\* expected (60 as unknown as Pitch).
NotAnEvent == [class |-> "String"]

NotATrack == 0

Raw(v) == [kind |-> "number", value |-> v]

\* A thrown InvalidArgumentError with its message, and a constructed Note
NoteThrow(message) == [ok |-> FALSE, error |-> message, note |-> NoEvent]

NoteReturn(note) == [ok |-> TRUE, error |-> "", note |-> note]

\* the duration test weakened: duration.value < 0
NoteCtorZeroDuration(id, time, pitch, velocity, duration) ==
    IF time.kind # "Ticks"
    THEN NoteThrow("Event time must be a Ticks instance")
    ELSE IF pitch.kind # "Pitch"
    THEN NoteThrow("Note pitch must be a Pitch instance")
    ELSE IF velocity.kind # "Velocity"
    THEN NoteThrow("Note velocity must be a Velocity instance")
    ELSE IF duration.kind # "Ticks"
    THEN NoteThrow("Note duration must be a Ticks instance")
    ELSE IF duration.value < 0
    THEN NoteThrow("Note duration must be positive")
    ELSE NoteReturn(Note(id, time, pitch, velocity, duration))

\* new Note(id, time, pitch, velocity, duration): the Event constructor's check
\* of time, then the Note constructor's checks, each with its message
NoteCtor(id, time, pitch, velocity, duration) ==
    IF time.kind # "Ticks"
    THEN NoteThrow("Event time must be a Ticks instance")
    ELSE IF pitch.kind # "Pitch"
    THEN NoteThrow("Note pitch must be a Pitch instance")
    ELSE IF velocity.kind # "Velocity"
    THEN NoteThrow("Note velocity must be a Velocity instance")
    ELSE IF duration.kind # "Ticks"
    THEN NoteThrow("Note duration must be a Ticks instance")
    ELSE IF duration.value <= 0
    THEN NoteThrow("Note duration must be positive")
    ELSE NoteReturn(Note(id, time, pitch, velocity, duration))

(***************************************************************************)
(* The raw values the value-object constructors are given. A JavaScript    *)
(* number is NaN, +Infinity, -Infinity or finite; a finite one is kept as  *)
(* sign and magnitude, the magnitude's integer part in three limbs         *)
(* (hi * 2^32 + mid * 2^16 + lo, mid and lo below 2^16) so that the 32-bit *)
(* truncation of the bitwise operators is exact, and `half` telling        *)
(* whether .5 is added (the non-integers used are of that form). A value   *)
(* that is no number at all is a string.                                   *)
(***************************************************************************)
Limb == 65536

NaN == [tag |-> "NaN"]

PosInfinity == [tag |-> "+Infinity"]

NegInfinity == [tag |-> "-Infinity"]

NotANumber == [tag |-> "string"]

\* hi * 2^32 + mid * 2^16 + lo, and the same plus .5
Big(hi, mid, lo) ==
    [tag |-> "finite", neg |-> FALSE, hi |-> hi, mid |-> mid, lo |-> lo,
     half |-> FALSE]

\* the integer i, |i| < 2^16
Num(i) ==
    [tag |-> "finite", neg |-> i < 0, hi |-> 0, mid |-> 0,
     lo |-> IF i < 0 THEN 0 - i ELSE i, half |-> FALSE]

\* i + 0.5 for i >= 0, i - 0.5 for i < 0
NumHalf(i) == [Num(i) EXCEPT !.half = TRUE, !.neg = i < 0]

\* typeof value === "number"
IsNumber(x) == x.tag # "string"

\* Number.isNaN(value)
IsNaN(x) == x.tag = "NaN"

\* Number.isFinite(value)
IsFinite(x) == x.tag = "finite"

\* Number.isInteger(value)
IsInteger(x) == x.tag = "finite" /\ ~x.half

\* |x| > m and |x| < m for a finite x and an integer 0 <= m < 2^16
MagGt(x, m) == x.hi > 0 \/ x.mid > 0 \/ x.lo > m \/ (x.lo = m /\ x.half)

MagLt(x, m) == x.hi = 0 /\ x.mid = 0 /\ x.lo < m

\* value < c and value > c for an integer constant c: false for NaN and for a
\* string (which converts to NaN)
JsLt(x, c) ==
    CASE x.tag = "finite" ->
            IF c >= 0 THEN (x.neg /\ MagGt(x, 0)) \/ (~x.neg /\ MagLt(x, c))
            ELSE x.neg /\ MagGt(x, 0 - c)
      [] x.tag = "-Infinity" -> TRUE
      [] OTHER -> FALSE

JsGt(x, c) ==
    CASE x.tag = "finite" ->
            IF c >= 0 THEN ~x.neg /\ MagGt(x, c)
            ELSE ~x.neg \/ MagLt(x, 0 - c)
      [] x.tag = "+Infinity" -> TRUE
      [] OTHER -> FALSE

\* value <= c
JsLe(x, c) ==
    CASE x.tag = "finite" -> ~JsGt(x, c)
      [] x.tag = "-Infinity" -> TRUE
      [] OTHER -> FALSE

\* a & b for 0 <= a, b < 2^16
RECURSIVE BitAnd16(_, _)
BitAnd16(a, b) ==
    IF a = 0 \/ b = 0 THEN 0
    ELSE (a % 2) * (b % 2) + 2 * BitAnd16(a \div 2, b \div 2)

\* The low 32 bits (ToInt32) of a positive integer d and of d - 1, as two limbs
Low32(d) == [mid |-> d.mid, lo |-> d.lo]

Low32Pred(d) ==
    IF d.lo > 0 THEN [mid |-> d.mid, lo |-> d.lo - 1]
    ELSE IF d.mid > 0 THEN [mid |-> d.mid - 1, lo |-> Limb - 1]
    ELSE [mid |-> Limb - 1, lo |-> Limb - 1]

\* (d & (d - 1)) !== 0 for a positive integer d
AndPredNonZero(d) ==
    \/ BitAnd16(Low32(d).mid, Low32Pred(d).mid) # 0
    \/ BitAnd16(Low32(d).lo, Low32Pred(d).lo) # 0

\* The result of a value-object constructor: ok = FALSE is a thrown
\* InvalidArgumentError, obj the instance constructed
ValueThrow == [ok |-> FALSE, obj |-> [kind |-> "none"]]

ValueReturn(kind, value) == [ok |-> TRUE, obj |-> [kind |-> kind, value |-> value]]

\* the upper bound off by one: value > 128
PitchCtor128(value) ==
    IF ~IsInteger(value) THEN ValueThrow
    ELSE IF JsLt(value, 0) \/ JsGt(value, 128) THEN ValueThrow
    ELSE ValueReturn("Pitch", value)

\* new Pitch(value)
PitchCtor(value) ==
    IF ~IsInteger(value) THEN ValueThrow
    ELSE IF JsLt(value, 0) \/ JsGt(value, 127) THEN ValueThrow
    ELSE ValueReturn("Pitch", value)

\* new Velocity(value)
VelocityCtor(value) ==
    IF ~IsInteger(value) THEN ValueThrow
    ELSE IF JsLt(value, 0) \/ JsGt(value, 127) THEN ValueThrow
    ELSE ValueReturn("Velocity", value)

\* new Ticks(value) of core/time.ts
TicksCtor(value) ==
    IF ~IsInteger(value) THEN ValueThrow
    ELSE IF JsLt(value, 0) THEN ValueThrow
    ELSE ValueReturn("Ticks", value)

\* new Seconds(value) of core/time.ts
SecondsCtor(value) ==
    IF JsLt(value, 0) THEN ValueThrow
    ELSE ValueReturn("Seconds", value)

\* the constructor of the abstract TimeValue: super(value)
TimeValueCtorOk(value) == ~(~IsNumber(value) \/ ~IsFinite(value))

\* new Ticks(value) of the classes that extend TimeValue
TimeValueTicksCtor(value) ==
    IF ~TimeValueCtorOk(value) THEN ValueThrow
    ELSE IF JsLt(value, 0) THEN ValueThrow
    ELSE ValueReturn("TimeValue.Ticks", value)

\* new Seconds(value) of the classes that extend TimeValue
TimeValueSecondsCtor(value) ==
    IF ~TimeValueCtorOk(value) THEN ValueThrow
    ELSE IF JsLt(value, 0) THEN ValueThrow
    ELSE ValueReturn("TimeValue.Seconds", value)

\* new Tempo(value)
TempoCtor(value) ==
    IF ~IsNumber(value) \/ IsNaN(value) THEN ValueThrow
    ELSE IF JsLe(value, 0) THEN ValueThrow
    ELSE ValueReturn("Tempo", value)

\* new Volume(value)
VolumeCtor(value) ==
    IF ~IsNumber(value) \/ IsNaN(value) THEN ValueThrow
    ELSE IF JsLt(value, 0) \/ JsGt(value, 1) THEN ValueThrow
    ELSE ValueReturn("Volume", value)

\* new Pan(value)
PanCtor(value) ==
    IF ~IsNumber(value) \/ IsNaN(value) THEN ValueThrow
    ELSE IF JsLt(value, -1) \/ JsGt(value, 1) THEN ValueThrow
    ELSE ValueReturn("Pan", value)

\* new TimeSignature(numerator, denominator)
TimeSignatureCtor(numerator, denominator) ==
    IF ~IsInteger(numerator) \/ JsLe(numerator, 0) THEN ValueThrow
    ELSE IF \/ ~IsInteger(denominator)
            \/ JsLe(denominator, 0)
            \/ AndPredNonZero(denominator)
    THEN ValueThrow
    ELSE [ok |-> TRUE,
          obj |-> [kind |-> "TimeSignature", numerator |-> numerator,
                   denominator |-> denominator]]

\* this.value === other.value: numbers are equal when they are the same number,
\* NaN being equal to nothing
StrictEquals(x, y) == x.tag # "NaN" /\ y.tag # "NaN" /\ x = y

\* the classes not compared: return this.value === other.value
TimeValueEqualsByValue(a, b) == StrictEquals(a.value, b.value)

\* TimeValue.equals(other): a.equals(b)
TimeValueEquals(a, b) == a.kind = b.kind /\ StrictEquals(a.value, b.value)

(***************************************************************************)
(* Array.prototype.sort((a, b) => a.time.value - b.time.value): a stable   *)
(* sort (ECMAScript 2019), here as an insertion sort that places an        *)
(* element after every element whose key is not greater.                   *)
(* Array.prototype.filter is SelectSeq.                                    *)
(***************************************************************************)
\* the comparator reversed: (a, b) => b.time.value - a.time.value
InsertByTimeDescending(s, e) ==
    LET k == Cardinality({i \in 1..Len(s) : e.time.value - s[i].time.value <= 0})
    IN  SubSeq(s, 1, k) \o <<e>> \o SubSeq(s, k + 1, Len(s))

\* an unstable sort: an element goes before the elements of equal key
InsertByTimeUnstable(s, e) ==
    LET k == Cardinality({i \in 1..Len(s) : s[i].time.value - e.time.value < 0})
    IN  SubSeq(s, 1, k) \o <<e>> \o SubSeq(s, k + 1, Len(s))

InsertByTime(s, e) ==
    LET k == Cardinality({i \in 1..Len(s) : s[i].time.value - e.time.value <= 0})
    IN  SubSeq(s, 1, k) \o <<e>> \o SubSeq(s, k + 1, Len(s))

RECURSIVE SortByTime(_)
SortByTime(s) ==
    IF s = <<>> THEN <<>>
    ELSE InsertByTime(SortByTime(SubSeq(s, 1, Len(s) - 1)), s[Len(s)])

\* All sequences over S of length at most n.
SeqsUpTo(S, n) == UNION {[1..k -> S] : k \in 0..n}

(***************************************************************************)
(* The heap as one value, and the result of a call: ok = FALSE is a thrown *)
(* InvalidArgumentError, ref the address of the object returned.           *)
(***************************************************************************)
Heap == [tracks |-> tracks, arrays |-> arrays, projects |-> projects]

Throw(h) == [ok |-> FALSE, heap |-> h, ref |-> 0]

Return(h, ref) == [ok |-> TRUE, heap |-> h, ref |-> ref]

\* A call that returns a tuple [ref, second].
Return2(h, ref, second) == [ok |-> TRUE, heap |-> h, ref |-> ref, second |-> second]

(***************************************************************************)
(* Track.                                                                  *)
(***************************************************************************)
\* new Track(id, name, events)
TrackCtor(h, id, name, events) ==
    IF \E i \in 1..Len(events) : ~IsEvent(events[i])
    THEN Throw(h)
    ELSE Return([h EXCEPT !.tracks =
                    Append(@, [id |-> id, name |-> name,
                               events |-> SortByTime(events)])],
                Len(h.tracks) + 1)

\* props?.name, with the constructor's default name = ""
PropsName(props) == IF props.given THEN props.name ELSE ""

PropsSet == {[given |-> FALSE, name |-> ""]} \cup
            {[given |-> TRUE, name |-> n] : n \in Names}

\* Track.create(props, events), id being the value generateId() returned
TrackCreate(h, id, props, events) == TrackCtor(h, id, PropsName(props), events)

\* this.events.push(event) in place of the copy [...this.events, event]
TrackAddEventPush(h, t, event) ==
    IF ~IsEvent(event)
    THEN Throw(h)
    ELSE LET pushed == [h EXCEPT !.tracks[t].events = Append(@, event)]
         IN  TrackCtor(pushed, h.tracks[t].id, h.tracks[t].name,
                       pushed.tracks[t].events)

\* Track.addEvent(event) on the track at address t
TrackAddEvent(h, t, event) ==
    IF ~IsEvent(event)
    THEN Throw(h)
    ELSE LET newEvents == Append(h.tracks[t].events, event)
         IN  TrackCtor(h, h.tracks[t].id, h.tracks[t].name, newEvents)

\* the filter inverted: (e) => e.id === eventId
TrackRemoveEventInverted(h, t, eventId) ==
    LET keep(e) == e.id = eventId
        newEvents == SelectSeq(h.tracks[t].events, keep)
    IN  TrackCtor(h, h.tracks[t].id, h.tracks[t].name, newEvents)

\* the name left out of the constructor call: new Track(this.id, undefined, newEvents)
TrackRemoveEventNoName(h, t, eventId) ==
    LET keep(e) == e.id # eventId
        newEvents == SelectSeq(h.tracks[t].events, keep)
    IN  TrackCtor(h, h.tracks[t].id, "", newEvents)

\* Track.removeEvent(eventId) on the track at address t
TrackRemoveEvent(h, t, eventId) ==
    LET keep(e) == e.id # eventId
        newEvents == SelectSeq(h.tracks[t].events, keep)
    IN  TrackCtor(h, h.tracks[t].id, h.tracks[t].name, newEvents)

\* Track.getEvents() on the track at address t
TrackGetEvents(h, t) == h.tracks[t].events

\* The result of a query: ok = FALSE is a thrown InvalidArgumentError, events
\* the array returned.
QueryThrow == [ok |-> FALSE, events |-> <<>>]

QueryReturn(events) == [ok |-> TRUE, events |-> events]

\* the upper bound excluded: event.time.value < endTicks
TrackGetEventsInRangeExclusive(h, t, startTicks, endTicks) ==
    IF startTicks < 0 \/ endTicks < startTicks
    THEN QueryThrow
    ELSE LET inRange(event) ==
                 event.time.value >= startTicks /\ event.time.value < endTicks
         IN  QueryReturn(SelectSeq(h.tracks[t].events, inRange))

\* Track.getEventsInRange(startTicks, endTicks) on the track at address t
TrackGetEventsInRange(h, t, startTicks, endTicks) ==
    IF startTicks < 0 \/ endTicks < startTicks
    THEN QueryThrow
    ELSE LET inRange(event) ==
                 event.time.value >= startTicks /\ event.time.value <= endTicks
         IN  QueryReturn(SelectSeq(h.tracks[t].events, inRange))

(***************************************************************************)
(* Project. `tracks` is the Map of track ids to Track instances, kept as   *)
(* the sequence of its entries in insertion order; `tracksArray` is the    *)
(* address of the array the constructor was given.                         *)
(***************************************************************************)
\* an array of entries pushed to, instead of Map.prototype.set
MapSetAppend(m, k, v) == Append(m, [key |-> k, val |-> v])

\* Map.prototype.set: an existing key keeps its position and takes the value
MapSet(m, k, v) ==
    IF \E i \in 1..Len(m) : m[i].key = k
    THEN [i \in 1..Len(m) |-> IF m[i].key = k THEN [key |-> k, val |-> v] ELSE m[i]]
    ELSE Append(m, [key |-> k, val |-> v])

\* Map.prototype.get: 0 stands for undefined
MapGet(m, k) ==
    IF \E i \in 1..Len(m) : m[i].key = k
    THEN m[CHOOSE i \in 1..Len(m) : m[i].key = k].val
    ELSE 0

\* Array.from(map.values())
MapValues(m) == [i \in 1..Len(m) |-> m[i].val]

\* track instanceof Track, for an element of a Track[] array
IsTrack(h, t) == t \in 1..Len(h.tracks)

\* for (const track of tracks) tracksMap.set(track.id, track)
RECURSIVE BuildTracksMap(_, _)
BuildTracksMap(h, ts) ==
    IF ts = <<>> THEN <<>>
    ELSE LET t == ts[Len(ts)]
         IN  MapSet(BuildTracksMap(h, SubSeq(ts, 1, Len(ts) - 1)), h.tracks[t].id, t)

\* the elements that are no Track left out instead of rejected:
\* tracks.filter((t) => t instanceof Track)
ProjectCtorSkipInvalid(h, a) ==
    LET isTrack(t) == IsTrack(h, t)
        valid == SelectSeq(h.arrays[a], isTrack)
    IN  Return([h EXCEPT !.projects =
                    Append(@, [tracks |-> BuildTracksMap(h, valid),
                               tracksArray |-> a])],
               Len(h.projects) + 1)

\* new Project(tracks), tracks being the array at address a
ProjectCtor(h, a) ==
    IF \E i \in 1..Len(h.arrays[a]) : ~IsTrack(h, h.arrays[a][i])
    THEN Throw(h)
    ELSE Return([h EXCEPT !.projects =
                    Append(@, [tracks |-> BuildTracksMap(h, h.arrays[a]),
                               tracksArray |-> a])],
                Len(h.projects) + 1)

\* An array literal / the result of map, filter or spread: a new array
NewArray(h, ts) == [h EXCEPT !.arrays = Append(@, ts)]

\* new Project(newTracks) on an array the caller keeps no reference to
ProjectOf(h, ts) == ProjectCtor(NewArray(h, ts), Len(h.arrays) + 1)

\* Project.getTracks() on the project at address p
getTracks(h, p) == MapValues(h.projects[p].tracks)

\* Project.getTrackInternal(trackId) / getTrack(trackId)
getTrackInternal(h, p, trackId) == MapGet(h.projects[p].tracks, trackId)

\* Project.getTrackCount()
getTrackCount(h, p) == Len(h.projects[p].tracks)

\* events.push(...track.getEvents()) for each track of ts, in order
RECURSIVE ConcatEvents(_, _)
ConcatEvents(h, ts) ==
    IF ts = <<>> THEN <<>>
    ELSE TrackGetEvents(h, Head(ts)) \o ConcatEvents(h, Tail(ts))

\* Project.getEvents()
ProjectGetEvents(h, p) ==
    SortByTime(ConcatEvents(h, h.arrays[h.projects[p].tracksArray]))

\* events.push(...track.getEventsInRange(startTicks, endTicks)) for each track
\* of ts, in order
RECURSIVE ConcatEventsInRange(_, _, _, _)
ConcatEventsInRange(h, ts, startTicks, endTicks) ==
    IF ts = <<>> THEN <<>>
    ELSE TrackGetEventsInRange(h, Head(ts), startTicks, endTicks).events
         \o ConcatEventsInRange(h, Tail(ts), startTicks, endTicks)

\* the merged events left in track order: no sort after the flatten
ProjectGetEventsInRangeUnsorted(h, p, startTicks, endTicks) ==
    IF startTicks < 0 \/ endTicks < startTicks
    THEN QueryThrow
    ELSE QueryReturn(ConcatEventsInRange(
             h, h.arrays[h.projects[p].tracksArray], startTicks, endTicks))

\* a zero-width range rejected: endTicks <= startTicks
ProjectGetEventsInRangeStrict(h, p, startTicks, endTicks) ==
    IF startTicks < 0 \/ endTicks <= startTicks
    THEN QueryThrow
    ELSE QueryReturn(SortByTime(ConcatEventsInRange(
             h, h.arrays[h.projects[p].tracksArray], startTicks, endTicks)))

\* Project.getEventsInRange(startTicks, endTicks)
ProjectGetEventsInRange(h, p, startTicks, endTicks) ==
    IF startTicks < 0 \/ endTicks < startTicks
    THEN QueryThrow
    ELSE QueryReturn(SortByTime(ConcatEventsInRange(
             h, h.arrays[h.projects[p].tracksArray], startTicks, endTicks)))

\* the new track put first: [track, ...currentTracks]
addTrackInstanceUnshift(h, p, track) ==
    IF ~IsTrack(h, track)
    THEN Throw(h)
    ELSE LET currentTracks == MapValues(h.projects[p].tracks)
             newTracks == <<track>> \o currentTracks
         IN  ProjectOf(h, newTracks)

\* Project.addTrackInstance(track)
addTrackInstance(h, p, track) ==
    IF ~IsTrack(h, track)
    THEN Throw(h)
    ELSE LET currentTracks == MapValues(h.projects[p].tracks)
             newTracks == Append(currentTracks, track)
         IN  ProjectOf(h, newTracks)

\* Project.addTrack(props), id being the value generateId() returned
addTrack(h, p, id, props) ==
    LET track == TrackCreate(h, id, props, <<>>)
        newProject == addTrackInstance(track.heap, p, track.ref)
    IN  IF ~track.ok \/ ~newProject.ok THEN Throw(h)
        ELSE Return2(newProject.heap, newProject.ref, track.ref)

\* the filter inverted: (t) => t.id === trackId
removeTrackInverted(h, p, trackId) ==
    LET currentTracks == MapValues(h.projects[p].tracks)
        keep(t) == h.tracks[t].id = trackId
        newTracks == SelectSeq(currentTracks, keep)
    IN  ProjectOf(h, newTracks)

\* Project.removeTrack(trackId)
removeTrack(h, p, trackId) ==
    LET currentTracks == MapValues(h.projects[p].tracks)
        keep(t) == h.tracks[t].id # trackId
        newTracks == SelectSeq(currentTracks, keep)
    IN  ProjectOf(h, newTracks)

\* the test inverted: (t) => t.id !== trackId ? updatedTrack : t
ReplaceTrackInverted(h, currentTracks, trackId, updatedTrack) ==
    [i \in 1..Len(currentTracks) |->
        IF h.tracks[currentTracks[i]].id # trackId
        THEN updatedTrack ELSE currentTracks[i]]

\* currentTracks.map((t) => t.id === trackId ? updatedTrack : t)
ReplaceTrack(h, currentTracks, trackId, updatedTrack) ==
    [i \in 1..Len(currentTracks) |->
        IF h.tracks[currentTracks[i]].id = trackId
        THEN updatedTrack ELSE currentTracks[i]]

\* an unknown track id taken as a no-op: if (!track) return new Project(tracks)
addEventInternalSilent(h, p, trackId, event) ==
    LET track == getTrackInternal(h, p, trackId)
    IN  IF track = 0 THEN ProjectOf(h, h.arrays[h.projects[p].tracksArray])
        ELSE IF ~IsEvent(event) THEN Throw(h)
        ELSE LET updatedTrack == TrackAddEvent(h, track, event)
                 currentTracks == h.arrays[h.projects[p].tracksArray]
                 newTracks == [i \in 1..Len(currentTracks) |->
                                 IF h.tracks[currentTracks[i]].id = trackId
                                 THEN updatedTrack.ref ELSE currentTracks[i]]
             IN  IF ~updatedTrack.ok THEN Throw(h)
                 ELSE ProjectOf(updatedTrack.heap, newTracks)

\* the event added to the track in place: the Track instance, shared by every
\* project holding it, is changed and no track is created
addEventInternalInPlace(h, p, trackId, event) ==
    LET track == getTrackInternal(h, p, trackId)
    IN  IF track = 0 THEN Throw(h)
        ELSE IF ~IsEvent(event) THEN Throw(h)
        ELSE LET changed == [h EXCEPT !.tracks[track].events =
                                SortByTime(Append(@, event))]
             IN  ProjectOf(changed, h.arrays[h.projects[p].tracksArray])

\* Project.addEventInternal(trackId, event)
addEventInternal(h, p, trackId, event) ==
    LET track == getTrackInternal(h, p, trackId)
    IN  IF track = 0 THEN Throw(h)
        ELSE IF ~IsEvent(event) THEN Throw(h)
        ELSE LET updatedTrack == TrackAddEvent(h, track, event)
                 currentTracks == h.arrays[h.projects[p].tracksArray]
                 newTracks == ReplaceTrack(updatedTrack.heap, currentTracks,
                                           trackId, updatedTrack.ref)
             IN  IF ~updatedTrack.ok THEN Throw(h)
                 ELSE ProjectOf(updatedTrack.heap, newTracks)

\* time and duration passed in each other's place
NoteCreateSwapped(id, time, pitch, velocity, duration) ==
    Note(id, duration, pitch, velocity, time)

\* Note.create(time, pitch, velocity, duration), id from generateId()
NoteCreate(id, time, pitch, velocity, duration) ==
    Note(id, time, pitch, velocity, duration)

\* Project.addNoteEvent(trackId, time, pitch, velocity, duration)
addNoteEvent(h, p, id, trackId, time, pitch, velocity, duration) ==
    IF ~NoteCtorOk(time, pitch, velocity, duration) THEN Throw(h)
    ELSE LET note == NoteCreate(id, time, pitch, velocity, duration)
             newProject == addEventInternal(h, p, trackId, note)
         IN  IF ~newProject.ok THEN Throw(h)
             ELSE Return2(newProject.heap, newProject.ref, note)

\* Project.removeEvent(trackId, eventId)
ProjectRemoveEvent(h, p, trackId, eventId) ==
    LET track == getTrackInternal(h, p, trackId)
    IN  IF track = 0 THEN Throw(h)
        ELSE LET updatedTrack == TrackRemoveEvent(h, track, eventId)
                 currentTracks == h.arrays[h.projects[p].tracksArray]
                 newTracks == ReplaceTrack(updatedTrack.heap, currentTracks,
                                           trackId, updatedTrack.ref)
             IN  IF ~updatedTrack.ok THEN Throw(h)
                 ELSE ProjectOf(updatedTrack.heap, newTracks)

(***************************************************************************)
(* SineOscillator. `contexts` are the AudioContexts created so far and     *)
(* `nodes` the AudioWorkletNodes (an object is named by its index); a      *)
(* context knows whether the processor module is registered in it, a node  *)
(* the context it was constructed on. `pending` are the contexts whose     *)
(* addModule() promise is not settled: one for each initialize() call that *)
(* is suspended at its await.                                              *)
(***************************************************************************)
Null == 0

SineOscillatorNew ==
    [audioContext |-> Null, workletNode |-> Null,
     isInitialized |-> FALSE, isPlaying |-> FALSE]

Audio ==
    [osc |-> osc, contexts |-> contexts, nodes |-> nodes, pending |-> pending]

\* new AudioContext(): suspended until resume()
NewAudioContext == [state |-> "suspended", module |-> FALSE]

\* initialize() up to its await: returns at once when initialized; else
\* constructs a context (the constructor can throw), stores it and calls
\* addModule on it
initializeStart(a, ctorOk) ==
    IF a.osc.isInitialized
    THEN [ok |-> TRUE, suspended |-> FALSE, audio |-> a]
    ELSE IF ~ctorOk
    THEN [ok |-> FALSE, suspended |-> FALSE, audio |-> a]
    ELSE LET c == Len(a.contexts) + 1
         IN  [ok |-> TRUE, suspended |-> TRUE,
              audio |-> [a EXCEPT !.contexts = Append(@, NewAudioContext),
                                  !.osc.audioContext = c,
                                  !.pending = @ \cup {c}]]

\* initialize() from its await on, the addModule promise of context c having
\* resolved or rejected: new AudioWorkletNode(this.audioContext, name) with
\* the context the field holds now; it throws on null and on a context
\* where the processor name is not registered
initializeResume(a, c, resolved) ==
    LET settled == [a EXCEPT !.pending = @ \ {c},
                             !.contexts[c].module = resolved]
        held == settled.osc.audioContext
        n == Len(settled.nodes) + 1
    IN  IF ~resolved THEN [ok |-> FALSE, audio |-> settled]
        ELSE IF held = Null THEN [ok |-> FALSE, audio |-> settled]
        ELSE IF ~settled.contexts[held].module
        THEN [ok |-> FALSE, audio |-> settled]
        ELSE [ok |-> TRUE,
              audio |-> [settled EXCEPT
                  !.nodes = Append(@, [context |-> held, connected |-> TRUE,
                                       playing |-> FALSE]),
                  !.osc.workletNode = n,
                  !.osc.isInitialized = TRUE]]

\* the check of initialization made after the flag is flipped
togglePlayFlipFirst(a) ==
    LET isPlaying == ~a.osc.isPlaying
    IN  IF ~a.osc.isInitialized \/ a.osc.workletNode = Null
        THEN [ok |-> FALSE, result |-> FALSE,
              audio |-> [a EXCEPT !.osc.isPlaying = isPlaying]]
        ELSE [ok |-> TRUE, result |-> isPlaying,
              audio |-> [a EXCEPT !.osc.isPlaying = isPlaying]]

togglePlay(a) ==
    IF ~a.osc.isInitialized \/ a.osc.workletNode = Null
    THEN [ok |-> FALSE, result |-> FALSE, audio |-> a]
    ELSE LET isPlaying == ~a.osc.isPlaying
             posted == [a EXCEPT !.osc.isPlaying = isPlaying,
                                 !.nodes[a.osc.workletNode].playing = isPlaying]
         IN  [ok |-> TRUE, result |-> isPlaying,
              audio |-> IF a.osc.audioContext # Null /\ isPlaying
                        THEN [posted EXCEPT
                                 !.contexts[a.osc.audioContext].state = "running"]
                        ELSE posted]

getIsPlaying(a) == a.osc.isPlaying

dispose(a) ==
    LET disconnected ==
            IF a.osc.workletNode # Null
            THEN [a EXCEPT !.nodes[a.osc.workletNode].connected = FALSE,
                           !.osc.workletNode = Null]
            ELSE a
        closed ==
            IF a.osc.audioContext # Null
            THEN [disconnected EXCEPT
                     !.contexts[a.osc.audioContext].state = "closed",
                     !.osc.audioContext = Null]
            ELSE disconnected
    IN  [ok |-> TRUE,
         audio |-> [closed EXCEPT !.osc.isInitialized = FALSE,
                                  !.osc.isPlaying = FALSE]]

(***************************************************************************)
(* State machine. `last` records the latest call: its receiver and         *)
(* arguments, whether it threw, what it returned, and the heap before it;  *)
(* `prev` is the call before that one.                                     *)
(***************************************************************************)
NoCall == [op |-> "none", ok |-> TRUE, ref |-> 0]

Init ==
    /\ tracks = <<>>
    /\ arrays = <<>>
    /\ projects = <<>>
    /\ genCount = 0
    /\ calls = 0
    /\ last = NoCall
    /\ prev = NoCall
    /\ osc = SineOscillatorNew
    /\ contexts = <<>>
    /\ nodes = <<>>
    /\ pending = {}

\* The heap after the call, and the call before this one
Commit(r) ==
    /\ tracks' = r.heap.tracks
    /\ arrays' = r.heap.arrays
    /\ projects' = r.heap.projects
    /\ prev' = last

\* The ids a caller can name: those of the tracks (events) that exist, and one
\* that names nothing.
TrackIdsInUse == {tracks[t].id : t \in 1..Len(tracks)} \cup {NoId}

EventIdsInUse ==
    UNION {{tracks[t].events[i].id : i \in 1..Len(tracks[t].events)} :
            t \in 1..Len(tracks)} \cup {NoId}

\* new Track(id, name, events) by a caller: events of at most n elements, the
\* caller constructing at most k tracks; the behaviour makes at most c calls
NewTrack(n, k, c) ==
    \E id \in LitIds, name \in Names, events \in SeqsUpTo(LitNotes, n) :
        /\ calls < c
        /\ Len(tracks) < k
        /\ LET r == TrackCtor(Heap, id, name, events)
           IN  /\ Commit(r)
               /\ last' = [op |-> "new Track", ok |-> r.ok, ref |-> r.ref,
                           id |-> id, name |-> name, events |-> events,
                           pre |-> Heap]
        /\ calls' = calls + 1
        /\ UNCHANGED audioVars
        /\ UNCHANGED genCount

\* t.addEvent(event) by a caller
DoTrackAddEvent(c) ==
    \E t \in 1..Len(tracks), event \in LitNotes :
        /\ calls < c
        /\ Len(tracks[t].events) < MaxEvents
        /\ LET r == TrackAddEvent(Heap, t, event)
           IN  /\ Commit(r)
               /\ last' = [op |-> "Track.addEvent", ok |-> r.ok, ref |-> r.ref,
                           recv |-> t, event |-> event, pre |-> Heap]
        /\ calls' = calls + 1
        /\ UNCHANGED audioVars
        /\ UNCHANGED genCount

\* t.removeEvent(eventId) by a caller
DoTrackRemoveEvent(c) ==
    \E t \in 1..Len(tracks), eventId \in EventIdsInUse :
        /\ calls < c
        /\ LET r == TrackRemoveEvent(Heap, t, eventId)
           IN  /\ Commit(r)
               /\ last' = [op |-> "Track.removeEvent", ok |-> r.ok, ref |-> r.ref,
                           recv |-> t, eventId |-> eventId, pre |-> Heap]
        /\ calls' = calls + 1
        /\ UNCHANGED audioVars
        /\ UNCHANGED genCount

\* new Project(list) by a caller, who keeps the array
NewProject ==
    \E list \in SeqsUpTo(1..Len(tracks), MaxProjTracks) :
        /\ calls < MaxCalls
        /\ LET r == ProjectCtor(NewArray(Heap, list), Len(arrays) + 1)
           IN  /\ Commit(r)
               /\ last' = [op |-> "new Project", ok |-> r.ok, ref |-> r.ref,
                           list |-> list, pre |-> Heap]
        /\ calls' = calls + 1
        /\ UNCHANGED audioVars
        /\ UNCHANGED genCount

\* p.addTrack(props)
DoAddTrack ==
    \E p \in 1..Len(projects), props \in PropsSet :
        /\ calls < MaxCalls
        /\ genCount < MaxGen
        /\ LET r == addTrack(Heap, p, generateId(genCount), props)
           IN  /\ Commit(r)
               /\ last' = [op |-> "addTrack", ok |-> r.ok, ref |-> r.ref,
                           second |-> IF r.ok THEN r.second ELSE 0,
                           recv |-> p, props |-> props,
                           id |-> generateId(genCount), pre |-> Heap]
        /\ calls' = calls + 1
        /\ UNCHANGED audioVars
        /\ genCount' = genCount + 1

\* p.removeTrack(trackId)
DoRemoveTrack ==
    \E p \in 1..Len(projects), trackId \in TrackIdsInUse :
        /\ calls < MaxCalls
        /\ LET r == removeTrack(Heap, p, trackId)
           IN  /\ Commit(r)
               /\ last' = [op |-> "removeTrack", ok |-> r.ok, ref |-> r.ref,
                           recv |-> p, trackId |-> trackId, pre |-> Heap]
        /\ calls' = calls + 1
        /\ UNCHANGED audioVars
        /\ UNCHANGED genCount

\* p.addNoteEvent(trackId, time, pitch, velocity, duration)
DoAddNoteEvent ==
    \E p \in 1..Len(projects), trackId \in TrackIdsInUse, time \in Times,
       pitch \in Pitches, velocity \in Velocities, duration \in Durations :
        /\ calls < MaxCalls
        /\ genCount < MaxGen
        /\ LET track == getTrackInternal(Heap, p, trackId)
           IN  track # 0 => Len(tracks[track].events) < MaxEvents
        /\ LET r == addNoteEvent(Heap, p, generateId(genCount), trackId,
                                 time, pitch, velocity, duration)
           IN  /\ Commit(r)
               /\ last' = [op |-> "addNoteEvent", ok |-> r.ok, ref |-> r.ref,
                           second |-> IF r.ok THEN r.second ELSE NoEvent,
                           recv |-> p, trackId |-> trackId, time |-> time,
                           pitch |-> pitch, velocity |-> velocity,
                           duration |-> duration, id |-> generateId(genCount),
                           pre |-> Heap]
        /\ calls' = calls + 1
        /\ UNCHANGED audioVars
        /\ genCount' = genCount + 1

\* p.removeEvent(trackId, eventId)
DoRemoveEvent ==
    \E p \in 1..Len(projects), trackId \in TrackIdsInUse,
       eventId \in EventIdsInUse :
        /\ calls < MaxCalls
        /\ LET r == ProjectRemoveEvent(Heap, p, trackId, eventId)
           IN  /\ Commit(r)
               /\ last' = [op |-> "Project.removeEvent", ok |-> r.ok, ref |-> r.ref,
                           recv |-> p, trackId |-> trackId, eventId |-> eventId,
                           pre |-> Heap]
        /\ calls' = calls + 1
        /\ UNCHANGED audioVars
        /\ UNCHANGED genCount

\* The bounds a caller gives to a range query: before, at and between the ticks
\* of the events, and a negative one
RangeBounds == {-1, 0, 240, 480}

\* A query: nothing of the heap changes, an array is returned or an error
\* thrown; the behaviour makes at most c calls
Query(rec, c) ==
    /\ calls < c
    /\ last' = rec
    /\ prev' = last
    /\ calls' = calls + 1
    /\ UNCHANGED audioVars
    /\ UNCHANGED <<tracks, arrays, projects, genCount>>

\* t.getEventsInRange(startTicks, endTicks) by a caller
DoTrackGetEventsInRange(c) ==
    \E t \in 1..Len(tracks), startTicks \in RangeBounds, endTicks \in RangeBounds :
        LET r == TrackGetEventsInRange(Heap, t, startTicks, endTicks)
        IN  Query([op |-> "Track.getEventsInRange", ok |-> r.ok, ref |-> 0,
                   result |-> r.events, recv |-> t, startTicks |-> startTicks,
                   endTicks |-> endTicks, pre |-> Heap], c)

\* p.getEventsInRange(startTicks, endTicks)
DoProjectGetEventsInRange ==
    \E p \in 1..Len(projects), startTicks \in RangeBounds, endTicks \in RangeBounds :
        LET r == ProjectGetEventsInRange(Heap, p, startTicks, endTicks)
        IN  Query([op |-> "Project.getEventsInRange", ok |-> r.ok, ref |-> 0,
                   result |-> r.events, recv |-> p, startTicks |-> startTicks,
                   endTicks |-> endTicks, pre |-> Heap], MaxCalls)

\* p.getEvents()
DoProjectGetEvents ==
    \E p \in 1..Len(projects) :
        Query([op |-> "Project.getEvents", ok |-> TRUE, ref |-> 0,
               result |-> ProjectGetEvents(Heap, p), recv |-> p, pre |-> Heap],
              MaxCalls)

\* t.getEvents() by a caller: the array returned is the track's own events
\* array (return this.events), so `ref` names the track whose array it is
DoTrackGetEvents ==
    \E t \in 1..Len(tracks) :
        Query([op |-> "Track.getEvents", ok |-> TRUE, ref |-> t,
               result |-> TrackGetEvents(Heap, t), recv |-> t, pre |-> Heap],
              MaxCalls)

\* What a caller does to an array it holds: push(e), splice(0, 1), reverse()
ArrayOps == {"push", "splice", "reverse"}

ArrayApply(s, how, e) ==
    CASE how = "push" -> Append(s, e)
      [] how = "splice" -> IF s = <<>> THEN s ELSE Tail(s)
      [] how = "reverse" -> [i \in 1..Len(s) |-> s[Len(s) + 1 - i]]

\* The caller changes, in place, the array the latest query returned. The array
\* Track.getEvents() returned is the events array of the track (ref # 0): the
\* track's events change with it. The array of another query is a new array
\* nothing else refers to (ref = 0).
CallerMutatesResult ==
    \E how \in ArrayOps, e \in LitNotes :
        /\ calls < MaxCalls
        /\ last.op \in {"Track.getEvents", "Track.getEventsInRange"}
        /\ last.ok
        /\ how = "push" => Len(last.result) < MaxEvents
        /\ how # "push" => e = CHOOSE n \in LitNotes : TRUE
        /\ tracks' = IF last.ref # 0
                      THEN [tracks EXCEPT ![last.ref].events = ArrayApply(@, how, e)]
                      ELSE tracks
        /\ last' = [op |-> "mutate", ok |-> TRUE, ref |-> last.ref, how |-> how,
                    via |-> last.op, recv |-> last.recv,
                    result |-> ArrayApply(last.result, how, e), pre |-> Heap]
        /\ prev' = last
        /\ calls' = calls + 1
        /\ UNCHANGED audioVars
        /\ UNCHANGED <<arrays, projects, genCount>>

\* What a caller does to the array it gave to new Project: push(t),
\* splice(0, 1), list[0] = t
ListOps == {"push", "splice", "assign"}

ListApply(list, how, t) ==
    CASE how = "push" -> Append(list, t)
      [] how = "splice" -> IF list = <<>> THEN list ELSE Tail(list)
      [] how = "assign" -> IF list = <<>> THEN list ELSE [list EXCEPT ![1] = t]

\* The caller changes, in place, the array it passed to the latest
\* new Project(list): the array is the project's tracksArray
\* (this.tracksArray = tracks)
CallerMutatesList ==
    \E how \in ListOps, t \in 1..Len(tracks) :
        /\ calls < MaxCalls
        /\ last.op = "new Project"
        /\ last.ok
        /\ how = "push" => Len(arrays[projects[last.ref].tracksArray]) < MaxProjTracks
        /\ how = "splice" => t = 1
        /\ arrays' = [arrays EXCEPT ![projects[last.ref].tracksArray] =
                         ListApply(@, how, t)]
        /\ last' = [op |-> "mutate list", ok |-> TRUE, ref |-> last.ref,
                    how |-> how, track |-> t, recv |-> last.ref, pre |-> Heap]
        /\ prev' = last
        /\ calls' = calls + 1
        /\ UNCHANGED audioVars
        /\ UNCHANGED <<tracks, projects, genCount>>

\* The oscillator and the Web Audio objects after a step
CommitAudio(a) ==
    /\ osc' = a.osc
    /\ contexts' = a.contexts
    /\ nodes' = a.nodes
    /\ pending' = a.pending
    /\ prev' = last
    /\ UNCHANGED heapVars

\* oscillator.initialize() by a caller (a click on the init button, which is
\* disabled only after the promise has resolved)
DoInitialize ==
    \E ctorOk \in BOOLEAN :
        /\ calls < MaxOscCalls
        /\ LET r == initializeStart(Audio, ctorOk)
           IN  /\ CommitAudio(r.audio)
               /\ last' = [op |-> "initialize", ok |-> r.ok, ref |-> 0,
                           suspended |-> r.suspended, pre |-> Audio]
        /\ calls' = calls + 1

\* The addModule promise of a context resolves and the initialize() call
\* that awaits it runs on
AddModuleResolves ==
    \E c \in pending :
        /\ LET r == initializeResume(Audio, c, TRUE)
           IN  /\ CommitAudio(r.audio)
               /\ last' = [op |-> "initialize resumes", ok |-> r.ok, ref |-> 0,
                           context |-> c, pre |-> Audio]
        /\ UNCHANGED calls

\* The addModule promise of a context rejects; the call that awaits it logs
\* and rethrows
AddModuleRejects ==
    \E c \in pending :
        /\ LET r == initializeResume(Audio, c, FALSE)
           IN  /\ CommitAudio(r.audio)
               /\ last' = [op |-> "initialize rejected", ok |-> r.ok, ref |-> 0,
                           context |-> c, pre |-> Audio]
        /\ UNCHANGED calls

DoTogglePlay ==
    /\ calls < MaxOscCalls
    /\ LET r == togglePlay(Audio)
       IN  /\ CommitAudio(r.audio)
           /\ last' = [op |-> "togglePlay", ok |-> r.ok, ref |-> 0,
                       result |-> r.result, pre |-> Audio]
    /\ calls' = calls + 1

DoDispose ==
    /\ calls < MaxOscCalls
    /\ LET r == dispose(Audio)
       IN  /\ CommitAudio(r.audio)
           /\ last' = [op |-> "dispose", ok |-> r.ok, ref |-> 0, pre |-> Audio]
    /\ calls' = calls + 1

\* What a caller can pass as an event, a note argument
AnyEvents == LitNotes \cup {NotAnEvent}

AnyTimes == Times \cup {Raw(480)}

AnyPitches == Pitches \cup {Raw(60)}

AnyVelocities == Velocities \cup {Raw(100)}

AnyDurations == Durations \cup {Raw(240), Raw(0)}

\* new Track(id, name, events), the events of any type
NewTrackUntyped ==
    \E id \in LitIds, name \in Names, events \in SeqsUpTo(AnyEvents, MaxCtorLen) :
        /\ calls < MaxUntypedCalls
        /\ Len(tracks) < MaxNewTracks
        /\ LET r == TrackCtor(Heap, id, name, events)
           IN  /\ Commit(r)
               /\ last' = [op |-> "new Track", ok |-> r.ok, ref |-> r.ref,
                           id |-> id, name |-> name, events |-> events,
                           pre |-> Heap]
        /\ calls' = calls + 1
        /\ UNCHANGED audioVars
        /\ UNCHANGED genCount

\* t.addEvent(event), the event of any type
DoTrackAddEventUntyped ==
    \E t \in 1..Len(tracks), event \in AnyEvents :
        /\ calls < MaxUntypedCalls
        /\ Len(tracks[t].events) < MaxEvents
        /\ LET r == TrackAddEvent(Heap, t, event)
           IN  /\ Commit(r)
               /\ last' = [op |-> "Track.addEvent", ok |-> r.ok, ref |-> r.ref,
                           recv |-> t, event |-> event, pre |-> Heap]
        /\ calls' = calls + 1
        /\ UNCHANGED audioVars
        /\ UNCHANGED genCount

\* new Project(list), the elements of any type
NewProjectUntyped ==
    \E list \in SeqsUpTo((1..Len(tracks)) \cup {NotATrack}, MaxProjTracks) :
        /\ calls < MaxUntypedCalls
        /\ LET r == ProjectCtor(NewArray(Heap, list), Len(arrays) + 1)
           IN  /\ Commit(r)
               /\ last' = [op |-> "new Project", ok |-> r.ok, ref |-> r.ref,
                           list |-> list, pre |-> Heap]
        /\ calls' = calls + 1
        /\ UNCHANGED audioVars
        /\ UNCHANGED genCount

\* p.addEvent(trackId, event) (addEventInternal), the event of any type
DoAddEventUntyped ==
    \E p \in 1..Len(projects), trackId \in TrackIdsInUse, event \in AnyEvents :
        /\ calls < MaxUntypedCalls
        /\ LET track == getTrackInternal(Heap, p, trackId)
           IN  track # 0 => Len(tracks[track].events) < MaxEvents
        /\ LET r == addEventInternal(Heap, p, trackId, event)
           IN  /\ Commit(r)
               /\ last' = [op |-> "Project.addEvent", ok |-> r.ok, ref |-> r.ref,
                           recv |-> p, trackId |-> trackId, event |-> event,
                           pre |-> Heap]
        /\ calls' = calls + 1
        /\ UNCHANGED audioVars
        /\ UNCHANGED genCount

\* new Note(id, time, pitch, velocity, duration), the arguments of any type
DoNewNote ==
    \E id \in LitIds, time \in AnyTimes, pitch \in AnyPitches,
       velocity \in AnyVelocities, duration \in AnyDurations :
        /\ calls < MaxNoteCalls
        /\ LET r == NoteCtor(id, time, pitch, velocity, duration)
           IN  last' = [op |-> "new Note", ok |-> r.ok, ref |-> 0,
                        error |-> r.error, note |-> r.note, id |-> id,
                        time |-> time, pitch |-> pitch, velocity |-> velocity,
                        duration |-> duration, pre |-> Heap]
        /\ prev' = last
        /\ calls' = calls + 1
        /\ UNCHANGED audioVars
        /\ UNCHANGED <<tracks, arrays, projects, genCount>>

\* The raw values given to the constructors: the boundaries of each range, a
\* value on either side, a non-integer, the non-finite numbers and a string
MidiNumbers ==
    {Num(-1), Num(0), Num(60), NumHalf(60), Num(127), Num(128), NaN,
     PosInfinity, NotANumber}

TickNumbers ==
    {Num(-1), Num(0), Num(480), NumHalf(3), NaN, PosInfinity, NegInfinity,
     NotANumber}

RealNumbers ==
    {Num(-2), Num(-1), Num(0), NumHalf(0), Num(1), Num(120), NaN, PosInfinity,
     NegInfinity, NotANumber}

Numerators == {Num(-4), Num(0), Num(3), Num(4), NumHalf(4), NaN}

\* 2^16, 2^31, 3 * 2^30, 2^32, 2^32 + 1, 3 * 2^31, 2^33 and 3 * 2^32 among them
Denominators ==
    {Num(-4), Num(0), Num(1), Num(3), Num(4), Num(6), Num(8), NumHalf(4), NaN,
     PosInfinity, Big(0, 1, 0), Big(0, 32768, 0), Big(0, 49152, 0),
     Big(1, 0, 0), Big(1, 0, 1), Big(1, 32768, 0), Big(2, 0, 0), Big(3, 0, 0)}

\* The TimeValue instances a caller holds
TimeValues ==
    {r.obj : r \in {x \in {TimeValueTicksCtor(v) : v \in TickNumbers} \cup
                          {TimeValueSecondsCtor(v) : v \in TickNumbers} : x.ok}}

\* A constructor call or a comparison of value objects: the call is recorded,
\* no Track or Project changes
ValueCall(rec) ==
    /\ calls < MaxValueCalls
    /\ last' = rec
    /\ prev' = last
    /\ calls' = calls + 1
    /\ UNCHANGED audioVars
    /\ UNCHANGED <<tracks, arrays, projects, genCount>>

\* The record of new C(value) with result r
ValueRecord(op, value, r) ==
    [op |-> op, ok |-> r.ok, ref |-> 0, value |-> value, obj |-> r.obj]

DoNewPitch ==
    \E value \in MidiNumbers :
        ValueCall(ValueRecord("new Pitch", value, PitchCtor(value)))

DoNewVelocity ==
    \E value \in MidiNumbers :
        ValueCall(ValueRecord("new Velocity", value, VelocityCtor(value)))

DoNewTicks ==
    \E value \in TickNumbers :
        ValueCall(ValueRecord("new Ticks", value, TicksCtor(value)))

DoNewTimeValueTicks ==
    \E value \in TickNumbers :
        ValueCall(ValueRecord("new TimeValue.Ticks", value, TimeValueTicksCtor(value)))

DoNewSeconds ==
    \E value \in RealNumbers :
        ValueCall(ValueRecord("new Seconds", value, SecondsCtor(value)))

DoNewTimeValueSeconds ==
    \E value \in RealNumbers :
        ValueCall(ValueRecord("new TimeValue.Seconds", value,
                              TimeValueSecondsCtor(value)))

DoNewTempo ==
    \E value \in RealNumbers :
        ValueCall(ValueRecord("new Tempo", value, TempoCtor(value)))

DoNewVolume ==
    \E value \in RealNumbers :
        ValueCall(ValueRecord("new Volume", value, VolumeCtor(value)))

DoNewPan ==
    \E value \in RealNumbers :
        ValueCall(ValueRecord("new Pan", value, PanCtor(value)))

DoNewTimeSignature ==
    \E numerator \in Numerators, denominator \in Denominators :
        LET r == TimeSignatureCtor(numerator, denominator)
        IN  ValueCall([op |-> "new TimeSignature", ok |-> r.ok, ref |-> 0,
                       numerator |-> numerator, denominator |-> denominator,
                       obj |-> r.obj])

\* a.equals(b)
DoEquals ==
    \E a \in TimeValues, b \in TimeValues :
        ValueCall([op |-> "equals", ok |-> TRUE, ref |-> 0, a |-> a, b |-> b,
                   result |-> TimeValueEquals(a, b)])

\* The Track operations alone: one track built from a list of up to MaxCtorLen
\* events, then calls on it and on the tracks they return
NextTrack ==
    \/ NewTrack(MaxCtorLen, 1, MaxTrackCalls)
    \/ DoTrackAddEvent(MaxTrackCalls)
    \/ DoTrackRemoveEvent(MaxTrackCalls)

SpecTrack == Init /\ [][NextTrack]_vars

\* The whole aggregate
Next ==
    \/ NewTrack(MaxProjCtorLen, MaxNewTracks, MaxCalls)
    \/ DoTrackAddEvent(MaxCalls)
    \/ DoTrackRemoveEvent(MaxCalls)
    \/ NewProject
    \/ DoAddTrack
    \/ DoRemoveTrack
    \/ DoAddNoteEvent
    \/ DoRemoveEvent

Spec == Init /\ [][Next]_vars

\* The Track operations and the range query on a track
NextTrackQuery ==
    \/ NextTrack
    \/ DoTrackGetEventsInRange(MaxTrackCalls)

SpecTrackQuery == Init /\ [][NextTrackQuery]_vars

\* The aggregate and the queries on it
NextQuery ==
    \/ Next
    \/ DoTrackGetEventsInRange(MaxCalls)
    \/ DoProjectGetEventsInRange
    \/ DoProjectGetEvents

SpecQuery == Init /\ [][NextQuery]_vars

\* Callers that pass values of any type to the constructors and to addEvent
NextUntyped ==
    \/ NewTrackUntyped
    \/ DoTrackAddEventUntyped
    \/ NewProjectUntyped
    \/ DoAddEventUntyped

SpecUntyped == Init /\ [][NextUntyped]_vars

\* Callers that keep the arrays the queries of a track return and write to them
NextView ==
    \/ NewTrack(MaxCtorLen, 1, MaxCalls)
    \/ DoTrackAddEvent(MaxCalls)
    \/ NewProject
    \/ DoTrackGetEvents
    \/ DoTrackGetEventsInRange(MaxCalls)
    \/ CallerMutatesResult

SpecView == Init /\ [][NextView]_vars

\* The constructors of the value objects, each family alone
NextMidi ==
    \/ DoNewPitch
    \/ DoNewVelocity

SpecMidi == Init /\ [][NextMidi]_vars

NextTicks ==
    \/ DoNewTicks
    \/ DoNewTimeValueTicks

SpecTicks == Init /\ [][NextTicks]_vars

NextReal ==
    \/ DoNewSeconds
    \/ DoNewTimeValueSeconds
    \/ DoNewTempo
    \/ DoNewVolume
    \/ DoNewPan

SpecReal == Init /\ [][NextReal]_vars

NextTimeSignature == DoNewTimeSignature

SpecTimeSignature == Init /\ [][NextTimeSignature]_vars

NextEquals == DoEquals

SpecEquals == Init /\ [][NextEquals]_vars

\* Callers that keep the array they gave to new Project and write to it
NextAlias ==
    \/ NewTrack(MaxProjCtorLen, MaxNewTracks, MaxCalls)
    \/ NewProject
    \/ CallerMutatesList
    \/ DoRemoveEvent
    \/ DoProjectGetEvents

SpecAlias == Init /\ [][NextAlias]_vars

\* A page that calls initialize() only
NextInitialize ==
    \/ DoInitialize
    \/ AddModuleResolves
    \/ AddModuleRejects

SpecInitialize == Init /\ [][NextInitialize]_vars

\* A page that initializes, toggles and disposes of the oscillator
NextOscillator ==
    \/ DoInitialize
    \/ AddModuleResolves
    \/ AddModuleRejects
    \/ DoTogglePlay
    \/ DoDispose

SpecOscillator == Init /\ [][NextOscillator]_vars

\* Callers that construct notes from arguments of any type
NextNote == DoNewNote

SpecNote == Init /\ [][NextNote]_vars

(***************************************************************************)
(* Properties.                                                             *)
(***************************************************************************)
SortedByTime(s) ==
    \A i, j \in 1..Len(s) : i < j => s[i].time.value <= s[j].time.value

\* The events of s at tick v, in the order s holds them
AtTick(s, v) == LET at(e) == e.time.value = v IN SelectSeq(s, at)

TickValues == {t.value : t \in Times}

TrackOps == {"Track.addEvent", "Track.removeEvent"}

ProjectOps == {"addTrack", "removeTrack", "addNoteEvent", "Project.removeEvent"}

\* What a caller reads from a track, and from a project through getTracks()
TrackContent(h, t) == h.tracks[t]

ProjectContent(h, p) ==
    [i \in 1..Len(getTracks(h, p)) |-> TrackContent(h, getTracks(h, p)[i])]

ProjectView(h, p) ==
    [tracks |-> getTracks(h, p), count |-> getTrackCount(h, p),
     content |-> ProjectContent(h, p), events |-> ProjectGetEvents(h, p)]

\* The ids of the tracks getTracks() returns
ProjectTrackIds(h, p) == {h.tracks[t].id : t \in {getTracks(h, p)[i] : i \in 1..Len(getTracks(h, p))}}

\* C1: the events of every track, built by the constructor from a list in any
\* order or returned by addEvent / removeEvent, are non-decreasing in time.value.
C1_SortInvariant ==
    \A t \in 1..Len(tracks) : SortedByTime(TrackGetEvents(Heap, t))

\* an event was added to a track whose last event is later than it
C1_Witness ==
    /\ last.op = "Track.addEvent"
    /\ last.ok
    /\ LET old == TrackGetEvents(last.pre, last.recv)
       IN  /\ Len(old) >= 2
           /\ last.event.time.value < old[Len(old)].time.value
    /\ prev.op = "new Track"
    /\ ~SortedByTime(prev.events)

\* C2: after Track.addEvent / removeEvent and Project.addTrack / removeTrack /
\* addNoteEvent / removeEvent, returned or thrown, the receiver reads as before:
\* the same id, name and events for a track; the same getTracks(), getTrackCount(),
\* track contents and getEvents() for a project.
C2_ReceiverUnchanged ==
    /\ last.op \in TrackOps =>
          TrackContent(Heap, last.recv) = TrackContent(last.pre, last.recv)
    /\ last.op \in ProjectOps =>
          ProjectView(Heap, last.recv) = ProjectView(last.pre, last.recv)

\* addNoteEvent returned on a track that already held an event
C2_Witness ==
    /\ last.op = "addNoteEvent"
    /\ last.ok
    /\ Len(TrackGetEvents(last.pre, getTrackInternal(last.pre, last.recv, last.trackId))) >= 1

\* C3: addEvent(e) returns the old events with e inserted after every event whose
\* time is not later than e's (so after all events of equal time, the others
\* keeping their order); a track built from a list holds, at each tick, the
\* events of that tick in list order.
C3_StableTieBreak ==
    /\ (last.op = "Track.addEvent" /\ last.ok) =>
          LET old == TrackGetEvents(last.pre, last.recv)
              new == TrackGetEvents(Heap, last.ref)
              e == last.event
          IN  \E k \in 0..Len(old) :
                /\ new = SubSeq(old, 1, k) \o <<e>> \o SubSeq(old, k + 1, Len(old))
                /\ \A i \in 1..k : old[i].time.value <= e.time.value
                /\ \A i \in (k + 1)..Len(old) : old[i].time.value > e.time.value
    /\ (last.op = "new Track" /\ last.ok) =>
          /\ Len(TrackGetEvents(Heap, last.ref)) = Len(last.events)
          /\ \A v \in TickValues :
                AtTick(TrackGetEvents(Heap, last.ref), v) = AtTick(last.events, v)

\* an event was added to a track holding two other events of the same time
C3_Witness ==
    /\ last.op = "Track.addEvent"
    /\ last.ok
    /\ LET old == TrackGetEvents(last.pre, last.recv)
       IN  /\ Len(old) = 2
           /\ old[1].time.value = last.event.time.value
           /\ old[2].time.value = last.event.time.value
           /\ old[1].id # old[2].id

\* C4: addNoteEvent / removeEvent on an existing track return a project whose
\* getTracks() holds, at each position, the receiver's Track instance unless its
\* id is trackId, and a track with id trackId there otherwise; addTrack keeps
\* the receiver's instances in order before the new one, removeTrack keeps
\* exactly the instances of another id, in order.
C4_StructuralSharing ==
    /\ (last.op \in {"addNoteEvent", "Project.removeEvent"} /\ last.ok) =>
          LET old == getTracks(last.pre, last.recv)
              new == getTracks(Heap, last.ref)
          IN  /\ Len(new) = Len(old)
              /\ \A i \in 1..Len(old) :
                    IF last.pre.tracks[old[i]].id = last.trackId
                    THEN /\ new[i] > Len(last.pre.tracks)
                         /\ tracks[new[i]].id = last.trackId
                    ELSE /\ new[i] = old[i]
                         /\ tracks[new[i]] = last.pre.tracks[old[i]]
    /\ (last.op = "addTrack" /\ last.ok) =>
          LET old == getTracks(last.pre, last.recv)
              new == getTracks(Heap, last.ref)
          IN  /\ new = Append(old, last.second)
              /\ \A i \in 1..Len(old) : tracks[old[i]] = last.pre.tracks[old[i]]
    /\ (last.op = "removeTrack" /\ last.ok) =>
          LET old == getTracks(last.pre, last.recv)
              new == getTracks(Heap, last.ref)
              other(t) == last.pre.tracks[t].id # last.trackId
          IN  /\ new = SelectSeq(old, other)
              /\ \A i \in 1..Len(old) : tracks[old[i]] = last.pre.tracks[old[i]]

\* addNoteEvent returned on a project of two tracks with different ids
C4_Witness ==
    /\ last.op = "addNoteEvent"
    /\ last.ok
    /\ Len(getTracks(last.pre, last.recv)) = 2
    /\ getTracks(Heap, last.ref)[1] = getTracks(last.pre, last.recv)[1]
    /\ getTracks(Heap, last.ref)[2] # getTracks(last.pre, last.recv)[2]

C6_UniqueEventIds ==
    \A t \in 1..Len(tracks) :
        \A i, j \in 1..Len(tracks[t].events) :
            i # j => tracks[t].events[i].id # tracks[t].events[j].id

C8_UnknownTrackThrows ==
    (/\ last.op \in {"addNoteEvent", "Project.removeEvent"}
     /\ last.trackId \notin ProjectTrackIds(last.pre, last.recv)) =>
        /\ ~last.ok
        /\ projects = last.pre.projects

\* addNoteEvent with valid note arguments named a track that a non-empty
\* receiver does not hold
C8_Witness ==
    /\ last.op = "addNoteEvent"
    /\ ~last.ok
    /\ NoteCtorOk(last.time, last.pitch, last.velocity, last.duration)
    /\ getTrackCount(last.pre, last.recv) >= 1
    /\ last.trackId \notin ProjectTrackIds(last.pre, last.recv)

\* C9: addEvent(n) on an empty track gives the events <<n>>; removeEvent(n.id)
\* on the track addEvent(n) returned gives back the events of the track n was
\* added to, when that track held no event with n's id.
C9_RoundTrip ==
    /\ (/\ last.op = "Track.addEvent"
        /\ TrackGetEvents(last.pre, last.recv) = <<>>) =>
          /\ last.ok
          /\ TrackGetEvents(Heap, last.ref) = <<last.event>>
    /\ (/\ last.op = "Track.removeEvent"
        /\ prev.op = "Track.addEvent"
        /\ prev.ok
        /\ last.recv = prev.ref
        /\ last.eventId = prev.event.id
        /\ \A i \in 1..Len(TrackGetEvents(prev.pre, prev.recv)) :
              TrackGetEvents(prev.pre, prev.recv)[i].id # prev.event.id) =>
          /\ last.ok
          /\ TrackGetEvents(Heap, last.ref) = TrackGetEvents(prev.pre, prev.recv)

\* a note was added in front of the events of a track and removed again
C9_Witness ==
    /\ last.op = "Track.removeEvent"
    /\ last.ok
    /\ prev.op = "Track.addEvent"
    /\ prev.ok
    /\ last.recv = prev.ref
    /\ last.eventId = prev.event.id
    /\ Len(TrackGetEvents(prev.pre, prev.recv)) >= 1
    /\ TrackGetEvents(Heap, prev.ref)[1] = prev.event
    /\ \A i \in 1..Len(TrackGetEvents(prev.pre, prev.recv)) :
          TrackGetEvents(prev.pre, prev.recv)[i].id # prev.event.id

\* The ids of the tracks and events of heap h
IdsIn(h) ==
    {h.tracks[t].id : t \in 1..Len(h.tracks)} \cup
    UNION {{h.tracks[t].events[i].id : i \in 1..Len(h.tracks[t].events)} :
            t \in 1..Len(h.tracks)}

\* C10: addNoteEvent on a track of the receiver with valid arguments returns
\* (p', n): n a Note with the given time, pitch, velocity and duration and the
\* generated id, which no track or event had; the events of p'.getTrack(trackId)
\* are sorted and are the receiver's track's events plus n once; the track keeps
\* its id and name.
C10_AddNoteEvent ==
    (/\ last.op = "addNoteEvent"
     /\ getTrackInternal(last.pre, last.recv, last.trackId) # 0
     /\ NoteCtorOk(last.time, last.pitch, last.velocity, last.duration)) =>
        /\ last.ok
        /\ LET n == last.second
               old == last.pre.tracks[getTrackInternal(last.pre, last.recv, last.trackId)]
               t == getTrackInternal(Heap, last.ref, last.trackId)
               notN(e) == e # n
           IN  /\ n.class = "Note"
               /\ n.id = last.id
               /\ n.id \notin IdsIn(last.pre)
               /\ n.time = last.time
               /\ n.pitch = last.pitch
               /\ n.velocity = last.velocity
               /\ n.duration = last.duration
               /\ t # 0
               /\ tracks[t].id = old.id
               /\ tracks[t].name = old.name
               /\ SortedByTime(tracks[t].events)
               /\ Len(tracks[t].events) = Len(old.events) + 1
               /\ SelectSeq(tracks[t].events, notN) = old.events

\* addNoteEvent put a note before an event of a named track
C10_Witness ==
    /\ last.op = "addNoteEvent"
    /\ last.ok
    /\ LET t == getTrackInternal(Heap, last.ref, last.trackId)
       IN  /\ tracks[t].name # ""
           /\ Len(tracks[t].events) = 2
           /\ tracks[t].events[1] = last.second

\* The events at tick v of the tracks ts, track after track, each track's events
\* in the order the track holds them
RECURSIVE EventsAtTick(_, _, _)
EventsAtTick(h, ts, v) ==
    IF ts = <<>> THEN <<>>
    ELSE AtTick(TrackGetEvents(h, Head(ts)), v) \o EventsAtTick(h, Tail(ts), v)

ValidRange(startTicks, endTicks) == 0 <= startTicks /\ startTicks <= endTicks

\* C11: Project.getEventsInRange(start, end) with 0 <= start <= end returns a
\* sequence sorted by time that holds, at each tick v of [start, end], the events
\* at v of the project's tracks (those of getTracks(), in that order, each
\* track's events in the track's order), and nothing at any other tick.
C11_RangeMerge ==
    (/\ last.op = "Project.getEventsInRange"
     /\ ValidRange(last.startTicks, last.endTicks)) =>
        /\ last.ok
        /\ SortedByTime(last.result)
        /\ \A i \in 1..Len(last.result) :
              /\ last.startTicks <= last.result[i].time.value
              /\ last.result[i].time.value <= last.endTicks
        /\ \A v \in TickValues :
              (last.startTicks <= v /\ v <= last.endTicks) =>
                  AtTick(last.result, v) =
                      EventsAtTick(last.pre, getTracks(last.pre, last.recv), v)

\* C12: Project.getEvents() returns a sequence sorted by time that holds, at
\* each tick, the events at that tick of the project's tracks (those of
\* getTracks(), in that order, each track's events in the track's order); it is
\* empty when the project has no track or only empty tracks.
C12_AllEvents ==
    last.op = "Project.getEvents" =>
        /\ SortedByTime(last.result)
        /\ \A i \in 1..Len(last.result) : last.result[i].time.value \in TickValues
        /\ \A v \in TickValues :
              AtTick(last.result, v) =
                  EventsAtTick(last.pre, getTracks(last.pre, last.recv), v)
        /\ (\A i \in 1..Len(getTracks(last.pre, last.recv)) :
                TrackGetEvents(last.pre, getTracks(last.pre, last.recv)[i]) = <<>>)
              => last.result = <<>>

\* C13: Track.getEventsInRange(start, end) with 0 <= start <= end returns, in
\* ascending time order, exactly the track's events e with
\* start <= e.time.value <= end, those of one tick in the track's order; a range
\* with start = end returns the events at that tick.
C13_TrackRange ==
    (/\ last.op = "Track.getEventsInRange"
     /\ ValidRange(last.startTicks, last.endTicks)) =>
        /\ last.ok
        /\ SortedByTime(last.result)
        /\ \A i \in 1..Len(last.result) :
              /\ last.startTicks <= last.result[i].time.value
              /\ last.result[i].time.value <= last.endTicks
        /\ \A v \in TickValues :
              (last.startTicks <= v /\ v <= last.endTicks) =>
                  AtTick(last.result, v) =
                      AtTick(TrackGetEvents(last.pre, last.recv), v)
        /\ last.startTicks = last.endTicks =>
              last.result = AtTick(TrackGetEvents(last.pre, last.recv), last.startTicks)

\* a zero-width range at the last tick of a track returned two events and left
\* out an earlier one
C13_Witness ==
    /\ last.op = "Track.getEventsInRange"
    /\ last.ok
    /\ last.startTicks = last.endTicks
    /\ Len(last.result) = 2
    /\ Len(TrackGetEvents(last.pre, last.recv)) = 3
    /\ last.result[1].time.value = last.endTicks

\* C14: Track.getEventsInRange and Project.getEventsInRange throw exactly when
\* startTicks < 0 or endTicks < startTicks, whatever the track or project holds,
\* and return a sequence otherwise.
C14_BoundsRule ==
    last.op \in {"Track.getEventsInRange", "Project.getEventsInRange"} =>
        (~last.ok <=> (last.startTicks < 0 \/ last.endTicks < last.startTicks))

\* a zero-width range was accepted on a project without tracks
C14_Witness ==
    /\ last.op = "Project.getEventsInRange"
    /\ last.ok
    /\ last.startTicks = last.endTicks
    /\ getTrackCount(last.pre, last.recv) = 0
    /\ prev.op = "Project.getEventsInRange"
    /\ ~prev.ok
    /\ prev.recv = last.recv
    /\ prev.startTicks >= 0

\* C15: addTrack(props) returns (p', t): t has the generated id, which no track
\* of the receiver has, the name props.name or "" without one, and no events;
\* p'.getTracks() is the receiver's getTracks() followed by t and
\* p'.getTrackCount() the receiver's count plus one.
C15_AddTrack ==
    last.op = "addTrack" =>
        /\ last.ok
        /\ LET t == last.second
               old == getTracks(last.pre, last.recv)
           IN  /\ t > Len(last.pre.tracks)
               /\ tracks[t].id = last.id
               /\ \A i \in 1..Len(old) : last.pre.tracks[old[i]].id # tracks[t].id
               /\ getTrackInternal(last.pre, last.recv, tracks[t].id) = 0
               /\ tracks[t].name = (IF last.props.given THEN last.props.name ELSE "")
               /\ TrackGetEvents(Heap, t) = <<>>
               /\ getTracks(Heap, last.ref) = old \o <<t>>
               /\ getTrackCount(Heap, last.ref) = getTrackCount(last.pre, last.recv) + 1
               /\ getTrackInternal(Heap, last.ref, tracks[t].id) = t

\* a named track was added to a project that held two tracks
C15_Witness ==
    /\ last.op = "addTrack"
    /\ last.ok
    /\ last.props.given
    /\ last.props.name # ""
    /\ getTrackCount(last.pre, last.recv) = 2
    /\ getTrackCount(Heap, last.ref) = 3

\* The events of the sequence s
Range(s) == {s[i] : i \in 1..Len(s)}

\* Every event a query on project p of heap h returns: getEvents() and
\* getEventsInRange() over the valid ranges
EventsReturned(h, p) ==
    Range(ProjectGetEvents(h, p)) \cup
    UNION {Range(ProjectGetEventsInRange(h, p, a, b).events) :
            a \in RangeBounds, b \in RangeBounds}

\* C16: removeTrack(id) on a project whose getTrack(id) is a track t returns a
\* project where getTrack(id) is absent and getTrackCount() is one less, and
\* whose getEvents() / getEventsInRange() return no event that only t held
\* among the receiver's tracks; after addTrack -> addNoteEvent -> removeTrack on
\* a project without tracks the project has no track and no event.
C16_RemoveTrack ==
    /\ (/\ last.op = "removeTrack"
        /\ getTrackInternal(last.pre, last.recv, last.trackId) # 0) =>
          LET t == getTrackInternal(last.pre, last.recv, last.trackId)
              old == getTracks(last.pre, last.recv)
              others == UNION {Range(TrackGetEvents(last.pre, old[i])) :
                                 i \in {j \in 1..Len(old) : old[j] # t}}
          IN  /\ last.ok
              /\ getTrackInternal(Heap, last.ref, last.trackId) = 0
              /\ getTrackCount(Heap, last.ref) = getTrackCount(last.pre, last.recv) - 1
              /\ \A e \in Range(TrackGetEvents(last.pre, t)) \ others :
                    e \notin EventsReturned(Heap, last.ref)
    /\ (/\ last.op = "removeTrack"
        /\ prev.op = "addNoteEvent"
        /\ prev.ok
        /\ last.recv = prev.ref
        /\ last.trackId = prev.trackId
        /\ getTrackCount(prev.pre, prev.recv) = 1) =>
          /\ last.ok
          /\ getTrackCount(Heap, last.ref) = 0
          /\ getTracks(Heap, last.ref) = <<>>
          /\ ProjectGetEvents(Heap, last.ref) = <<>>

\* a project of one track lost it right after a note was added to it
C16_Witness ==
    /\ last.op = "removeTrack"
    /\ last.ok
    /\ prev.op = "addNoteEvent"
    /\ prev.ok
    /\ last.recv = prev.ref
    /\ last.trackId = prev.trackId
    /\ getTrackCount(prev.pre, prev.recv) = 1
    /\ ProjectGetEvents(last.pre, last.recv) # <<>>
    /\ getTrackCount(Heap, last.ref) = 0

\* C17: no operation changes what an existing Project or Track reads as: for
\* every project that existed before the call (the receiver, its ancestors and
\* the snapshots derived from them alike), getTracks(), getTrackCount(), the
\* tracks' contents, getEvents() and getTrack(id) are the same after it, and
\* every Track instance has the same id, name and events.
C17_SnapshotIndependence ==
    last.op # "none" =>
        /\ \A p \in 1..Len(last.pre.projects) :
              /\ ProjectView(Heap, p) = ProjectView(last.pre, p)
              /\ \A id \in IdsIn(Heap) \cup {NoId} :
                    getTrackInternal(Heap, p, id) = getTrackInternal(last.pre, p, id)
        /\ \A t \in 1..Len(last.pre.tracks) :
              TrackContent(Heap, t) = TrackContent(last.pre, t)

\* a note was added, through one snapshot, to a track whose instance another
\* snapshot holds as well
C17_Witness ==
    /\ last.op = "addNoteEvent"
    /\ last.ok
    /\ \E q \in 1..Len(last.pre.projects) :
          /\ q # last.recv
          /\ getTrackCount(last.pre, q) = 2
          /\ getTrackInternal(last.pre, q, last.trackId) =
                getTrackInternal(last.pre, last.recv, last.trackId)
          /\ getTrackInternal(Heap, last.ref, last.trackId) #
                getTrackInternal(Heap, q, last.trackId)

\* C19: new Project(list) throws when an element of the list is no Track, and
\* the Track constructor, Track.addEvent and Project.addEvent throw when an
\* event given is no Event; a call that throws produces no Project and no
\* Track, and the constructors return an object when every element is valid.
C19_AllOrNothing ==
    /\ last.op = "new Project" =>
          IF \E i \in 1..Len(last.list) : last.list[i] = NotATrack
          THEN ~last.ok /\ projects = last.pre.projects /\ tracks = last.pre.tracks
          ELSE last.ok /\ Len(projects) = Len(last.pre.projects) + 1
    /\ last.op = "new Track" =>
          IF \E i \in 1..Len(last.events) : last.events[i] = NotAnEvent
          THEN ~last.ok /\ tracks = last.pre.tracks
          ELSE last.ok /\ Len(tracks) = Len(last.pre.tracks) + 1
    /\ (last.op = "Track.addEvent" /\ last.event = NotAnEvent) =>
          ~last.ok /\ tracks = last.pre.tracks
    /\ (last.op = "Project.addEvent" /\ last.event = NotAnEvent) =>
          ~last.ok /\ projects = last.pre.projects /\ tracks = last.pre.tracks

\* a list of a Track followed by a value that is no Track was rejected, after a
\* track list of an Event followed by a value that is no Event was
C19_Witness ==
    /\ last.op = "new Project"
    /\ ~last.ok
    /\ Len(last.list) = 2
    /\ last.list[1] # NotATrack
    /\ last.list[2] = NotATrack
    /\ prev.op = "new Track"
    /\ ~prev.ok
    /\ Len(prev.events) = 2
    /\ prev.events[1] # NotAnEvent

\* C20: new Note succeeds exactly when time is a Ticks, pitch a Pitch, velocity
\* a Velocity and duration a Ticks of value > 0; a failure carries the message
\* of a constraint that is violated, each constraint having its own; a Note
\* constructed has a duration of value > 0.
C20_NoteConstruction ==
    last.op = "new Note" =>
        /\ last.ok <=> (/\ last.time.kind = "Ticks"
                        /\ last.pitch.kind = "Pitch"
                        /\ last.velocity.kind = "Velocity"
                        /\ last.duration.kind = "Ticks"
                        /\ last.duration.value > 0)
        /\ last.ok => (/\ last.note.class = "Note"
                       /\ last.note.duration.kind = "Ticks"
                       /\ last.note.duration.value > 0
                       /\ last.note = Note(last.id, last.time, last.pitch,
                                            last.velocity, last.duration))
        /\ ~last.ok =>
              /\ last.note = NoEvent
              /\ last.error = "Event time must be a Ticks instance"
                    => last.time.kind # "Ticks"
              /\ last.error = "Note pitch must be a Pitch instance"
                    => last.pitch.kind # "Pitch"
              /\ last.error = "Note velocity must be a Velocity instance"
                    => last.velocity.kind # "Velocity"
              /\ last.error = "Note duration must be a Ticks instance"
                    => last.duration.kind # "Ticks"
              /\ last.error = "Note duration must be positive"
                    => (last.duration.kind = "Ticks" /\ last.duration.value <= 0)
              /\ last.error \in {"Event time must be a Ticks instance",
                                  "Note pitch must be a Pitch instance",
                                  "Note velocity must be a Velocity instance",
                                  "Note duration must be a Ticks instance",
                                  "Note duration must be positive"}

\* a Note with a duration of new Ticks(0) was rejected for its duration alone
C20_Witness ==
    /\ last.op = "new Note"
    /\ ~last.ok
    /\ last.error = "Note duration must be positive"
    /\ last.duration = Ticks(0)
    /\ prev.op = "new Note"
    /\ prev.ok
    /\ prev.time = last.time
    /\ prev.pitch = last.pitch
    /\ prev.velocity = last.velocity

\* What the queries of heap h return: getEvents() and getEventsInRange() of
\* every track and of every project
QueryResults(h) ==
    [track |-> [t \in 1..Len(h.tracks) |->
                  [all |-> TrackGetEvents(h, t),
                   range |-> [a \in RangeBounds, b \in RangeBounds |->
                                TrackGetEventsInRange(h, t, a, b)]]],
     project |-> [p \in 1..Len(h.projects) |->
                    [all |-> ProjectGetEvents(h, p),
                     range |-> [a \in RangeBounds, b \in RangeBounds |->
                                  ProjectGetEventsInRange(h, p, a, b)]]]]

\* C18: whatever a caller does (push, splice, reverse) to the array
\* Track.getEvents() returned, getEvents() and getEventsInRange() of every
\* track and of every project return afterwards what they returned before.
C18_ReadOnlyView ==
    (last.op = "mutate" /\ last.via = "Track.getEvents") =>
        QueryResults(Heap) = QueryResults(last.pre)

\* The same of the array Track.getEventsInRange() returned, a copy
RangeResultIsACopy ==
    (last.op = "mutate" /\ last.via = "Track.getEventsInRange") =>
        QueryResults(Heap) = QueryResults(last.pre)

\* C21: new Pitch(v) and new Velocity(v) return exactly when v is an integer
\* with 0 <= v <= 127, and the instance has the value v.
C21_MidiRange ==
    last.op \in {"new Pitch", "new Velocity"} =>
        /\ last.ok <=> (/\ last.value.tag = "finite"
                        /\ ~last.value.half
                        /\ ~last.value.neg
                        /\ last.value.hi = 0
                        /\ last.value.mid = 0
                        /\ last.value.lo \in 0..127)
        /\ last.ok => last.obj.value = last.value
        /\ last.ok => last.obj.kind = (IF last.op = "new Pitch" THEN "Pitch"
                                        ELSE "Velocity")

\* Pitch(127) was constructed after Pitch(128) was rejected
C21_Witness ==
    /\ last.op = "new Pitch"
    /\ last.ok
    /\ last.value = Num(127)
    /\ prev.op = "new Pitch"
    /\ ~prev.ok
    /\ prev.value = Num(128)

\* C22: every Ticks constructor, that of core/time.ts and that of the classes
\* extending TimeValue, returns exactly when the raw value is an integer >= 0.
C22_TicksInteger ==
    last.op \in {"new Ticks", "new TimeValue.Ticks"} =>
        (last.ok <=> (/\ last.value.tag = "finite"
                      /\ ~last.value.half
                      /\ ~last.value.neg))

\* C23: new Seconds, new Tempo, new Volume and new Pan throw when the raw value
\* is NaN, +Infinity or -Infinity, and no instance has such a value.
C23_FiniteOnly ==
    last.op \in {"new Seconds", "new TimeValue.Seconds", "new Tempo",
                 "new Volume", "new Pan"} =>
        /\ last.value.tag \in {"NaN", "+Infinity", "-Infinity"} => ~last.ok
        /\ last.ok => last.obj.value.tag \notin {"NaN", "+Infinity", "-Infinity"}

\* The powers of 2 below 2^16
PowersOfTwo16 == {1, 2, 4, 8, 16, 32, 64, 128, 256, 512, 1024, 2048, 4096,
                  8192, 16384, 32768}

\* x is a positive integer power of 2: one limb is a power of 2, the others 0
IsPowerOfTwo(x) ==
    /\ x.tag = "finite"
    /\ ~x.half
    /\ ~x.neg
    /\ \/ x.hi \in PowersOfTwo16 /\ x.mid = 0 /\ x.lo = 0
       \/ x.hi = 0 /\ x.mid \in PowersOfTwo16 /\ x.lo = 0
       \/ x.hi = 0 /\ x.mid = 0 /\ x.lo \in PowersOfTwo16

\* C24: new TimeSignature(n, d) returns exactly when n is a positive integer
\* and d a positive integer power of 2, also for d of 2^32 and above.
C24_TimeSignature ==
    last.op = "new TimeSignature" =>
        (last.ok <=> (/\ last.numerator.tag = "finite"
                      /\ ~last.numerator.half
                      /\ ~last.numerator.neg
                      /\ MagGt(last.numerator, 0)
                      /\ IsPowerOfTwo(last.denominator)))

\* C25: a.equals(b) is true exactly when a and b are of the same class and
\* have the same value; a Ticks never equals a Seconds; a.equals(a) is true and
\* b.equals(a) is what a.equals(b) is.
C25_Equality ==
    /\ last.op = "equals" =>
          /\ last.result <=> (last.a.kind = last.b.kind /\ last.a.value = last.b.value)
          /\ last.a.kind # last.b.kind => ~last.result
          /\ last.a = last.b => last.result
    /\ (/\ last.op = "equals"
        /\ prev.op = "equals"
        /\ prev.a = last.b
        /\ prev.b = last.a) => last.result = prev.result

\* a Ticks and a Seconds of one value compared unequal, both ways round
C25_Witness ==
    /\ last.op = "equals"
    /\ prev.op = "equals"
    /\ prev.a = last.b
    /\ prev.b = last.a
    /\ last.a.kind = "TimeValue.Ticks"
    /\ last.b.kind = "TimeValue.Seconds"
    /\ last.a.value = last.b.value
    /\ ~last.result

\* C26: in every project the tracks getEvents() / getEventsInRange() iterate
\* are the tracks getTracks() returns, in the same order; so getEvents() returns
\* only events of tracks of getTracks(), and getTrackCount() is the number of
\* tracks iterated.
C26_TrackListConsistency ==
    \A p \in 1..Len(projects) :
        LET iterated == arrays[projects[p].tracksArray]
        IN  /\ iterated = getTracks(Heap, p)
            /\ getTrackCount(Heap, p) = Len(iterated)
            /\ \A e \in Range(ProjectGetEvents(Heap, p)) :
                  \E i \in 1..Len(getTracks(Heap, p)) :
                      e \in Range(TrackGetEvents(Heap, getTracks(Heap, p)[i]))

\* What removeEvent returns on project p of heap h, for the track and event
\* ids in use: whether it throws, and what the project returned reads as
RemoveEventResults(h, p) ==
    [trackId \in TrackIdsInUse, eventId \in EventIdsInUse |->
        LET r == ProjectRemoveEvent(h, p, trackId, eventId)
        IN  IF r.ok THEN [ok |-> TRUE, view |-> ProjectView(r.heap, r.ref)]
            ELSE [ok |-> FALSE]]

\* C27: after the caller changes the array it gave to new Project (push,
\* splice, assignment to an element), getTracks(), getTrackCount(), getEvents()
\* and getEventsInRange() of every project return what they returned before,
\* and removeEvent returns what it would have returned before.
C27_NoAliasing ==
    last.op = "mutate list" =>
        /\ \A p \in 1..Len(projects) :
              /\ ProjectView(Heap, p) = ProjectView(last.pre, p)
              /\ RemoveEventResults(Heap, p) = RemoveEventResults(last.pre, p)
        /\ QueryResults(Heap) = QueryResults(last.pre)

\* The same of what reads the track mapping only
MappingIsACopy ==
    last.op = "mutate list" =>
        \A p \in 1..Len(projects) :
            /\ getTracks(Heap, p) = getTracks(last.pre, p)
            /\ getTrackCount(Heap, p) = getTrackCount(last.pre, p)

\* a is b with some elements left out
RECURSIVE IsSubsequence(_, _)
IsSubsequence(a, b) ==
    IF a = <<>> THEN TRUE
    ELSE IF b = <<>> THEN FALSE
    ELSE IF Head(a) = Head(b) THEN IsSubsequence(Tail(a), Tail(b))
    ELSE IsSubsequence(a, Tail(b))

\* C28: what getEventsInRange(s, e) returns on a track or a project, for
\* 0 <= s <= e, is a subsequence of what getEvents() returns there, and is that
\* very sequence when s = 0 and e is at least the time of every event held.
C28_RangeAgreesWithListing ==
    (/\ last.op \in {"Track.getEventsInRange", "Project.getEventsInRange"}
     /\ ValidRange(last.startTicks, last.endTicks)) =>
        LET all == IF last.op = "Track.getEventsInRange"
                   THEN TrackGetEvents(last.pre, last.recv)
                   ELSE ProjectGetEvents(last.pre, last.recv)
        IN  /\ last.ok
            /\ IsSubsequence(last.result, all)
            /\ (/\ last.startTicks = 0
                /\ \A i \in 1..Len(all) : all[i].time.value <= last.endTicks)
                  => last.result = all

\* a range from 0 to the latest tick returned the events of two tracks of a
\* project, those of the second track not all after those of the first
C28_Witness ==
    /\ last.op = "Project.getEventsInRange"
    /\ last.ok
    /\ last.startTicks = 0
    /\ Len(last.result) >= 2
    /\ \A i \in 1..Len(last.result) : last.result[i].time.value <= last.endTicks
    /\ last.result = ProjectGetEvents(last.pre, last.recv)
    /\ last.result # ConcatEvents(last.pre, getTracks(last.pre, last.recv))
    /\ getTrackCount(last.pre, last.recv) = 2

\* C29: whatever the initialize() calls and however they interleave with the
\* settling of addModule, at most one AudioContext and at most one
\* AudioWorkletNode are ever created, and the node the oscillator holds was
\* constructed on the context it holds.
C29_InitializeOnce ==
    /\ Len(contexts) <= 1
    /\ Len(nodes) <= 1
    /\ osc.workletNode # Null =>
          nodes[osc.workletNode].context = osc.audioContext

\* The part of it about the objects held
NodeOfContextHeld ==
    osc.workletNode # Null =>
        /\ osc.audioContext # Null
        /\ nodes[osc.workletNode].context = osc.audioContext

\* C30: isPlaying only if isInitialized, workletNode # null and
\* audioContext # null; togglePlay() on an oscillator that is not initialized
\* throws and leaves isPlaying as it was; after dispose() getIsPlaying() is
\* false.
C30_PlayingImpliesInitialized ==
    /\ osc.isPlaying =>
          /\ osc.isInitialized
          /\ osc.workletNode # Null
          /\ osc.audioContext # Null
    /\ (last.op = "togglePlay" /\ ~last.pre.osc.isInitialized) =>
          /\ ~last.ok
          /\ osc.isPlaying = last.pre.osc.isPlaying
    /\ last.op = "dispose" => ~getIsPlaying(Audio)

\* dispose() of a playing oscillator while an initialize() call is pending
C30_Witness ==
    /\ last.op = "dispose"
    /\ last.pre.osc.isPlaying
    /\ pending # {}
    /\ ~getIsPlaying(Audio)
    /\ prev.op = "togglePlay"

====
